---- MODULE Spec2Model ----
(***************************************************************************)
(* A model of mgraphite (package mgr): the variable registry (Int, Float,  *)
(* Map, Func), and the exporter that flattens the registry into Graphite   *)
(* wire lines and writes them to a lazily dialled connection.              *)
(*                                                                         *)
(* The module holds one state space and several specifications over it:    *)
(*   SpecInt     concurrent Add/Set calls on one Int                       *)
(*   SpecFloat   concurrent Add calls on one Float (the CAS retry loop)    *)
(*   SpecMap     Map.Set / Map.Items on a group with a nested group        *)
(*   SpecExport  Export's tick loop: report, appendMetric, Publish, Do     *)
(* Each specification moves only the variables of its part; the others     *)
(* stay as constructed.                                                    *)
(***************************************************************************)
EXTENDS Integers, Sequences, FiniteSets, TLC

VARIABLES
    \* ---- Int (mgr.go 374-400)
    intI,       \* Int.i of every Int object: [IntIds -> int64]
    ipc,        \* per caller of SpecInt: "ready" before its call, "done" after it returned
    icall,      \* per caller: the call it made, [kind, arg] (NoCall before)
    \* ---- Float (mgr.go 402-438)
    floatF,     \* Float.f: the bit pattern held in the uint64 cell
    f0,         \* the value the Float was Set to before the concurrent Adds start
    fpc,        \* per caller: "ready", "load", "cas", "done" (position in Float.Add)
    fdelta,     \* per caller: the delta argument of its Add
    fcur,       \* per caller: the local cur (bits loaded at line 419)
    fretries,   \* per caller: how many compare-and-swaps of its Add failed
    \* ---- Map (mgr.go 440-518)
    mapM,       \* Map.m of every Map object: [MapIds -> [Names -> Var or Nil]]
    mapKeys,    \* Map.keys of every Map object: [MapIds -> sequence of names]
    flat,       \* what the application's latest Map.Items() call returned
                \* (dropped when the application next calls Set)
    mapMu,      \* Map.mu of every Map object: "free", or "Do" while a Do pass holds it
    doIdx,      \* Map.Do's range index into m.keys (0: no pass was ever started)
    doSeen,     \* history: what the visitor of the latest Do pass was called with
    doStart,    \* history: Map.m as it was when the latest Do pass took the lock
    doPub,      \* the variable Do's visitor has called Publish with and not yet
                \* published, or Nil
    setPc,      \* where the statement-by-statement Set call stands: "idle", "locked",
                \* "stored", "fill", "sorted"
    setKey,     \* its key argument
    setVal,     \* its val argument
    setOrder,   \* the order in which its range over m.m yields the keys
    setI,       \* its fill index i (lines 499-503)
    rdPc,       \* where the statement-by-statement Items call stands: "idle", "outer"
                \* (flattenMap over the receiver), "inner" (flattenMap over a nested Map)
    rdOut,      \* the outer flattenMap's range index
    rdIdx,      \* the inner flattenMap's range index
    rdLen,      \* the length of the keys slice the inner flattenMap was passed
    rdLive,     \* whether that slice still shares its array with the nested Map's keys
    rdArr,      \* the array of that slice once the nested Map's keys were re-made
    rdSeen,     \* history: the names the Items call in progress has read in its inner
                \* flattenMap, and the m[k] it found for each
    crashed,    \* the process has died of a nil dereference
    \* ---- Histogram (described in the specification, section 4.4)
    hValues,    \* the sample buffer, a ring of HistCap slots
    hCounter,   \* the write counter (h.counter)
    hSnapshot,  \* the snapshot buffer the statistics are reduced from
    hRecorded,  \* history: the values of the Record calls, in the order they took the lock
    hSnapCount, \* history: the write counter when the snapshot buffer was last filled
    qpc,        \* per statistics query: "idle", or "snap" once takeSnapshot has returned
    qsnap,      \* history, per query: what its takeSnapshot copied
    last,       \* the latest reduction: [p, res, own, min, max] (res: percentile(p);
                \* own: the snapshot buffer still held what the reducing query had
                \* copied), or NoResult
    \* ---- registry and exporter (mgr.go 520-614)
    varsL,      \* vars.l: the published variables
    published,  \* history: the arguments of the Publish calls, in call order
    config,     \* the *Config handed to Export or report: NilConfig or [Prefix, Addr]
    xpc,        \* who drives report: "direct" (a caller of report itself, as the
                \* tests), or Export: "start" before the call, "loop" inside its
                \* ticker loop, "returned" after it returned
    exportErr,  \* what Export returned: "none" (not returned) or "ErrInvalidConfig"
    conn,       \* the package variable conn: "nil" or "live"
    pool,       \* bufPool: the unread content of the pooled buffer (<<>>: none, or empty)
    clock,      \* what timeFn() returned last (Unix seconds); time does not run backwards
    epc,        \* the exporter: "idle" between ticks, "do" inside Do's pass
    buf,        \* report's local buf: the unread lines of the buffer
    bufStart,   \* how many lines buf already held when bufPool.Get returned it
    walkIdx,    \* Do's range index into vars.l (next entry to visit)
    items,      \* appendMetric: the pairs of v.Items() not yet written
    visited,    \* history: the variables Do has called fn on in the pass under way
    sent,       \* how many lines conn.Write took in the current tick
    ticks,      \* timer ticks so far
    tickDials,  \* dialFn calls in the current tick
    tickWrites, \* conn.Write calls in the current tick
    tickLogs,   \* config.Logger calls in the current tick
    lastErr,    \* what the current (or last) report call returned: "none", "dial", "write"
    prevErr,    \* the same for the tick before
    connAtTick  \* conn when the current tick started

intVars   == <<intI, ipc, icall>>
floatVars == <<floatF, f0, fpc, fdelta, fcur, fretries>>
doVars    == <<mapMu, doIdx, doSeen, doStart, doPub>>
setVars   == <<setPc, setKey, setVal, setOrder, setI>>
rdVars    == <<rdPc, rdOut, rdIdx, rdLen, rdLive, rdArr, rdSeen>>
raceVars  == <<setVars, rdVars, crashed>>
mapVars   == <<mapM, mapKeys, flat, doVars, raceVars>>
histVars  == <<hValues, hCounter, hSnapshot, hRecorded, hSnapCount, qpc, qsnap, last>>
regVars   == <<varsL, published>>
expVars   == <<config, xpc, exportErr, conn, pool, clock, epc, buf, bufStart, walkIdx, items, visited,
               sent, ticks, tickDials, tickWrites, tickLogs, lastErr, prevErr, connAtTick>>
vars      == <<intVars, floatVars, mapVars, histVars, regVars, expVars>>

(***************************************************************************)
(* Bounds of the model.                                                    *)
(***************************************************************************)
NumCallers == 3     \* concurrent application goroutines calling one variable
IntBits    == 3     \* width of the modelled int64 cell (two's complement, scaled)
MantBits   == 3     \* significand bits of the modelled float64 (scaled from 53)
ExpBits    == 3     \* exponent bits of the modelled float64 (scaled from 11)
MaxVars    == 2     \* Publish calls the application makes
MaxTicks   == 2     \* timer ticks of the export loop
MaxClock   == 1     \* timeFn returns seconds 0..MaxClock
HistCap    == 2     \* capacity of the Histogram (NewHistogram's second argument)
MaxRecords == 3     \* Record calls on the Histogram

Callers == 1..NumCallers
IntIds  == {1, 2}     \* the Int objects of the application

\* All orders in which the callers' calls can be applied one at a time.
CallOrders == {o \in [1..NumCallers -> Callers] : \A a, b \in 1..NumCallers : a # b => o[a] # o[b]}

(***************************************************************************)
(* Strings are sequences of one-character strings; Str renders one as a    *)
(* TLA+ string.  Values (the output of strconv) are kept as TLA+ strings.  *)
(***************************************************************************)
Byte(c) == CASE c = "." -> 46
             [] c = "a" -> 97
             [] c = "b" -> 98
             [] c = "g" -> 103
             [] c = "p" -> 112
             [] c = "x" -> 120
             [] c = "y" -> 121

\* a < b for Go strings: byte-wise lexicographic.
RECURSIVE StrLess(_, _)
StrLess(a, b) ==
    IF a = <<>> THEN b # <<>>
    ELSE IF b = <<>> THEN FALSE
    ELSE IF Byte(a[1]) # Byte(b[1]) THEN Byte(a[1]) < Byte(b[1])
    ELSE StrLess(Tail(a), Tail(b))

RECURSIVE Str(_)
Str(s) == IF s = <<>> THEN "" ELSE s[1] \o Str(Tail(s))

(***************************************************************************)
(* Int: a signed 64-bit cell updated with sync/atomic.                     *)
(***************************************************************************)
MinInt64 == -(2 ^ (IntBits - 1))
MaxInt64 == (2 ^ (IntBits - 1)) - 1

\* Two's-complement wrap-around of the machine integer.
Wrap64(n) == ((n - MinInt64) % (2 ^ IntBits)) + MinInt64

\* strconv.FormatInt(v, 10)
FormatInt(v) == ToString(v)

\* A plausible slip: the delta is stored instead of added.
AddInt64Store(cur, delta) == delta

\* atomic.AddInt64(&i.i, delta): the new content of the cell.
AddInt64(cur, delta) == Wrap64(cur + delta)

\* atomic.StoreInt64(&i.i, val)
StoreInt64(cur, val) == val

\* atomic.LoadInt64(&i.i)
LoadInt64(id) == intI[id]

\* (*Int).Add on object id.
IntAdd(id, delta) == intI' = [intI EXCEPT ![id] = AddInt64(@, delta)]

\* (*Int).Set on object id.
IntSet(id, val) == intI' = [intI EXCEPT ![id] = StoreInt64(@, val)]

\* Int.key of the objects, as NewInt(name) set it (names may repeat).
IntKey(id) == IF id = 2 THEN <<"b">> ELSE <<"a">>

\* (*Int).Items: one pair, the value in base 10.
IntItems(id) == << [Key |-> IntKey(id), Value |-> FormatInt(LoadInt64(id))] >>

NoCall == [kind |-> "none", arg |-> 0]
IntDeltas == {1, -1, MaxInt64}
IntVals   == {MinInt64, 2}

InitInt ==
    /\ intI = [id \in IntIds |-> 0]
    /\ ipc = [t \in Callers |-> "ready"]
    /\ icall = [t \in Callers |-> NoCall]

\* Caller t calls Add(delta) on Int 1 and returns.
IntAddCall(t) ==
    /\ ipc[t] = "ready"
    /\ \E d \in IntDeltas :
          /\ IntAdd(1, d)
          /\ icall' = [icall EXCEPT ![t] = [kind |-> "Add", arg |-> d]]
    /\ ipc' = [ipc EXCEPT ![t] = "done"]
    /\ UNCHANGED <<floatVars, mapVars, histVars, regVars, expVars>>

\* Caller t calls Set(val) on Int 1 and returns.
IntSetCall(t) ==
    /\ ipc[t] = "ready"
    /\ \E v \in IntVals :
          /\ IntSet(1, v)
          /\ icall' = [icall EXCEPT ![t] = [kind |-> "Set", arg |-> v]]
    /\ ipc' = [ipc EXCEPT ![t] = "done"]
    /\ UNCHANGED <<floatVars, mapVars, histVars, regVars, expVars>>

(***************************************************************************)
(* Float: a float64 kept as its bit pattern in a uint64 cell.  The model   *)
(* float has MantBits significand bits and ExpBits exponent bits, its      *)
(* smallest subnormal is 1, and it rounds to nearest, ties to even, as     *)
(* float64 does; only its scale differs.  Values are written as the        *)
(* integers they denote.                                                   *)
(***************************************************************************)
Abs(x) == IF x < 0 THEN -x ELSE x

\* The spacing of the floats around magnitude a: the least power of two q
\* with a < 2^MantBits * q.
RECURSIVE Quantum(_, _)
Quantum(a, q) == IF a < (2 ^ MantBits) * q THEN q ELSE Quantum(a, 2 * q)

\* Round to the nearest representable value, ties to the even significand.
RoundEven(x) ==
    LET a  == Abs(x)
        q  == Quantum(a, 1)
        lo == (a \div q) * q
        r  == a - lo
        m  == IF 2 * r < q THEN lo
              ELSE IF 2 * r > q THEN lo + q
              ELSE IF (lo \div q) % 2 = 0 THEN lo ELSE lo + q
    IN  IF x < 0 THEN -m ELSE m

\* curVal + delta in float64 arithmetic (line 421).
FAdd(a, b) == RoundEven(a + b)

RECURSIVE Log2(_)
Log2(q) == IF q <= 1 THEN 0 ELSE 1 + Log2(q \div 2)

HiddenBit == 2 ^ (MantBits - 1)
SignBit   == 2 ^ (ExpBits + MantBits - 1)

\* math.Float64bits: sign | biased exponent | fraction.
Float64bits(v) ==
    LET a == Abs(v)
        q == Quantum(a, 1)
        m == a \div q
        e == IF m < HiddenBit THEN 0 ELSE Log2(q) + 1
        frac == IF m < HiddenBit THEN m ELSE m - HiddenBit
    IN  (IF v < 0 THEN SignBit ELSE 0) + e * HiddenBit + frac

\* math.Float64frombits
Float64frombits(b) ==
    LET mag  == b % SignBit
        e    == mag \div HiddenBit
        frac == mag % HiddenBit
        a    == IF e = 0 THEN frac ELSE (HiddenBit + frac) * (2 ^ (e - 1))
    IN  IF b >= SignBit THEN -a ELSE a

FloatInits  == {0, 3, 2 ^ MantBits}
FloatDeltas == {1, 2, -3}

\* The Float the application has Set to v (line 430), no Add running.
InitFloat(v) ==
    /\ f0 = v
    /\ floatF = Float64bits(v)
    /\ fpc = [t \in Callers |-> "ready"]
    /\ fdelta = [t \in Callers |-> 0]
    /\ fcur = [t \in Callers |-> 0]
    /\ fretries = [t \in Callers |-> 0]

\* Caller t enters Float.Add(delta).
FloatAddCall(t) ==
    /\ fpc[t] = "ready"
    /\ \E d \in FloatDeltas : fdelta' = [fdelta EXCEPT ![t] = d]
    /\ fpc' = [fpc EXCEPT ![t] = "load"]
    /\ UNCHANGED <<floatF, f0, fcur, fretries, intVars, mapVars, histVars, regVars, expVars>>

\* cur := atomic.LoadUint64(&f.f)   (line 419)
FloatAddLoad(t) ==
    /\ fpc[t] = "load"
    /\ fcur' = [fcur EXCEPT ![t] = floatF]
    /\ fpc' = [fpc EXCEPT ![t] = "cas"]
    /\ UNCHANGED <<floatF, f0, fdelta, fretries, intVars, mapVars, histVars, regVars, expVars>>

\* nxt computed from the loaded cur (lines 420-422).
FloatNxt(t) == Float64bits(FAdd(Float64frombits(fcur[t]), fdelta[t]))

\* A plausible slip: the swap's result is ignored and Add returns after one try.
FloatAddCasOnce(t) ==
    /\ fpc[t] = "cas"
    /\ floatF' = IF floatF = fcur[t] THEN FloatNxt(t) ELSE floatF
    /\ fpc' = [fpc EXCEPT ![t] = "done"]
    /\ UNCHANGED <<f0, fdelta, fcur, fretries, intVars, mapVars, histVars, regVars, expVars>>

\* A plausible slip: cur is loaded once, before the loop, and a failed swap
\* is retried with the same cur.
FloatAddCasNoReload(t) ==
    /\ fpc[t] = "cas"
    /\ IF floatF = fcur[t]
          THEN /\ floatF' = FloatNxt(t)
               /\ fpc' = [fpc EXCEPT ![t] = "done"]
               /\ UNCHANGED fretries
          ELSE /\ fretries' = [fretries EXCEPT ![t] = @ + 1]
               /\ UNCHANGED <<floatF, fpc>>
    /\ UNCHANGED <<f0, fdelta, fcur, intVars, mapVars, histVars, regVars, expVars>>

\* if atomic.CompareAndSwapUint64(&f.f, cur, nxt) { return }, else loop (423-426)
FloatAddCas(t) ==
    /\ fpc[t] = "cas"
    /\ IF floatF = fcur[t]
          THEN /\ floatF' = FloatNxt(t)
               /\ fpc' = [fpc EXCEPT ![t] = "done"]
               /\ UNCHANGED fretries
          ELSE /\ fpc' = [fpc EXCEPT ![t] = "load"]
               /\ fretries' = [fretries EXCEPT ![t] = @ + 1]
               /\ UNCHANGED floatF
    /\ UNCHANGED <<f0, fdelta, fcur, intVars, mapVars, histVars, regVars, expVars>>

\* Caller t calls Float.Set(v): atomic.StoreUint64(&f.f, Float64bits(v)),
\* line 430 (its delta stays 0).
FloatSetCall(t) ==
    /\ fpc[t] = "ready"
    /\ \E v \in FloatInits : floatF' = Float64bits(v)
    /\ fpc' = [fpc EXCEPT ![t] = "done"]
    /\ UNCHANGED <<f0, fdelta, fcur, fretries, intVars, mapVars, histVars, regVars, expVars>>

\* The steps of caller t's one call on the Float.
FloatStep(t) == FloatAddCall(t) \/ FloatSetCall(t) \/ FloatAddLoad(t) \/ FloatAddCas(t)

(***************************************************************************)
(* Var, Func and Map.  The program's objects: the Ints, one Float, one     *)
(* Func (a computed source yielding several pairs, such as MemStats or the *)
(* tests' customVar), and two Maps: "root", made by NewMap("g"), and       *)
(* "nested", a zero Map the application initialised with Init (its key is  *)
(* empty) that can be Set into root.                                       *)
(***************************************************************************)
MapIds == {"root", "nested"}
Names  == {<<"a">>, <<"a", "b">>, <<"b">>}

\* A Var interface value: the dynamic type and the object pointed to.
Nil == [type |-> "nil", id |-> 0, map |-> ""]
IntVar(id) == [type |-> "Int", id |-> id, map |-> ""]
FloatVar   == [type |-> "Float", id |-> 0, map |-> ""]
FuncVar    == [type |-> "Func", id |-> 0, map |-> ""]
MapVar(id) == [type |-> "Map", id |-> 0, map |-> id]

Leaves == {IntVar(1), FloatVar, FuncVar}

\* strconv.FormatFloat(v, 'g', -1, 64) of an integral value below 1e6:
\* its digits, no exponent, no fraction.
FormatFloat(v) == ToString(v)

\* (*Float).Items
FloatItems == << [Key |-> <<"x">>, Value |-> FormatFloat(Float64frombits(floatF))] >>

\* Func.Items: the supplied function's pairs.
FuncItems == << [Key |-> <<"x">>, Value |-> "7"], [Key |-> <<"y">>, Value |-> "9"] >>

\* Map.key
MapKey(id) == IF id = "root" THEN <<"g">> ELSE <<>>

\* v.Items() of a variable that is no Map.
LeafItems(v) == CASE v.type = "Int"   -> IntItems(v.id)
                  [] v.type = "Float" -> FloatItems
                  [] v.type = "Func"  -> FuncItems

\* flattenMap(prefix, m, keys), lines 464-482.  A nested *Map is read through
\* its fields m and keys; any other variable through Items(), of which only
\* the Value is kept.
RECURSIVE flattenMap(_, _, _)
flattenMap(prefix, m, keys) ==
    IF keys = <<>> THEN <<>>
    ELSE LET k   == Head(keys)
             val == m[k]
             key == prefix \o <<".">> \o k
             res == IF val.type = "Map"
                       THEN flattenMap(key, mapM[val.map], mapKeys[val.map])
                       ELSE [j \in 1..Len(LeafItems(val)) |->
                                [Key |-> key, Value |-> LeafItems(val)[j].Value]]
         IN  res \o flattenMap(prefix, m, Tail(keys))

\* (*Map).Items, lines 484-489.
MapItems(id) == flattenMap(MapKey(id), mapM[id], mapKeys[id])

\* The names bound in a Go map value.
KeysOf(m) == {k \in Names : m[k] # Nil}

\* The orders in which "for k := range m.m" may fill m.keys (lines 498-503).
RangeOrders(m) ==
    {o \in [1..Cardinality(KeysOf(m)) -> KeysOf(m)] :
        \A a, b \in DOMAIN o : a # b => o[a] # o[b]}

\* Insert k into the ascending sequence s.
RECURSIVE Insert(_, _)
Insert(k, s) == IF s = <<>> THEN <<k>>
                ELSE IF StrLess(k, Head(s)) THEN <<k>> \o s
                ELSE <<Head(s)>> \o Insert(k, Tail(s))

\* A plausible slip: the rebuilt key list is left in range order.
SortStringsNone(s) == s

\* sort.Strings(keys), line 505.
RECURSIVE SortStrings(_)
SortStrings(s) == IF s = <<>> THEN <<>> ELSE Insert(Head(s), SortStrings(Tail(s)))

\* What the application may Set into a Map: root takes any leaf or the
\* nested Map, nested takes a one-pair or a two-pair leaf (the groups form a
\* tree).
Settable(id) == IF id = "root" THEN Leaves \cup {MapVar("nested")}
                ELSE {IntVar(1), FuncVar}

\* No Set and no Items call is in progress.
InitRace ==
    /\ setPc = "idle"
    /\ setKey = <<>>
    /\ setVal = Nil
    /\ setOrder = <<>>
    /\ setI = 0
    /\ rdPc = "idle"
    /\ rdOut = 0
    /\ rdIdx = 0
    /\ rdLen = 0
    /\ rdLive = FALSE
    /\ rdArr = <<>>
    /\ rdSeen = <<>>
    /\ crashed = FALSE

\* No Do pass has been started on any Map.
InitDo ==
    /\ mapMu = [id \in MapIds |-> "free"]
    /\ doIdx = 0
    /\ doSeen = <<>>
    /\ doStart = [k \in Names |-> Nil]
    /\ doPub = Nil
    /\ InitRace

InitMap ==
    /\ mapM = [id \in MapIds |-> [k \in Names |-> Nil]]     \* Init(), line 460
    /\ mapKeys = [id \in MapIds |-> <<>>]
    /\ flat = <<>>
    /\ InitDo

\* A plausible slip: Set does not take m.mu.
MuFreeAlways(id) == TRUE

\* m.mu.Lock() returns only while no one holds m.mu.
MuFree(id) == mapMu[id] = "free"

\* (*Map).Set(key, val), lines 491-506, under m.mu.
MapSet(id, k, v) ==
    LET m2 == [mapM[id] EXCEPT ![k] = v]
    IN  /\ mapM' = [mapM EXCEPT ![id] = m2]
        /\ \E o \in RangeOrders(m2) : mapKeys' = [mapKeys EXCEPT ![id] = SortStrings(o)]

\* m[k] of a Go map: the nil interface for a key that is not present.
MapLookup(m, k) == IF k \in DOMAIN m THEN m[k] ELSE Nil

\* Init(), lines 459-462: m.m is replaced by an empty map; m.keys is not
\* touched and m.mu is not taken.
MapInitCall(id) ==
    /\ ~crashed
    /\ mapM' = [mapM EXCEPT ![id] = [k \in Names |-> Nil]]
    /\ flat' = <<>>
    /\ UNCHANGED <<mapKeys, doVars, raceVars, intVars, floatVars, histVars, regVars, expVars>>

\* Whether flattenMap(prefix, m, keys) reaches v.Items() with v the nil
\* interface (lines 466, 473): some name of keys, at any depth, has no
\* variable in its mapping.
RECURSIVE flattenPanics(_, _)
flattenPanics(m, keys) ==
    \E i \in 1..Len(keys) :
        LET v == MapLookup(m, keys[i])
        IN  \/ v = Nil
            \/ v.type = "Map" /\ flattenPanics(mapM[v.map], mapKeys[v.map])

\* The application calls Set on a Map.
MapSetCall(id) ==
    /\ ~crashed
    /\ MuFree(id)
    /\ \E k \in Names : \E v \in Settable(id) : MapSet(id, k, v)
    /\ flat' = <<>>
    /\ UNCHANGED <<doVars, raceVars, intVars, floatVars, histVars, regVars, expVars>>

\* The application calls Items() on a Map and keeps the result.
MapItemsCall(id) ==
    /\ ~crashed
    /\ MuFree(id)
    /\ ~flattenPanics(mapM[id], mapKeys[id])
    /\ flat' = MapItems(id)
    /\ UNCHANGED <<mapM, mapKeys, doVars, raceVars, intVars, floatVars, histVars, regVars, expVars>>

\* The application calls Items() on a Map whose key list names an entry
\* with no variable: the call dies in flattenMap, line 473.
MapItemsPanic(id) ==
    /\ ~crashed
    /\ MuFree(id)
    /\ flattenPanics(mapM[id], mapKeys[id])
    /\ crashed' = TRUE
    /\ UNCHANGED <<mapM, mapKeys, flat, doVars, setVars, rdVars, intVars, floatVars, histVars,
                   regVars, expVars>>

(***************************************************************************)
(* Set and Items statement by statement, for the interleavings of          *)
(* one goroutine in Set on a nested Map with another in Items on the Map   *)
(* that holds it.                                                          *)
(***************************************************************************)

\* m.mu.Lock() of Set(key, val), lines 492-493.
MapSetLock(id) ==
    /\ ~crashed
    /\ setPc = "idle"
    /\ MuFree(id)
    /\ mapMu' = [mapMu EXCEPT ![id] = "Set"]
    /\ \E k \in Names : \E v \in Settable(id) : setKey' = k /\ setVal' = v
    /\ setPc' = "locked"
    /\ UNCHANGED <<mapM, mapKeys, flat, doIdx, doSeen, doStart, doPub, setOrder, setI, rdVars, crashed,
                   intVars, floatVars, histVars, regVars, expVars>>

\* m.m[key] = val, line 495.
MapSetStore(id) ==
    /\ ~crashed
    /\ mapMu[id] = "Set"
    /\ setPc = "locked"
    /\ mapM' = [mapM EXCEPT ![id][setKey] = setVal]
    /\ setPc' = "stored"
    /\ UNCHANGED <<mapKeys, flat, doVars, setKey, setVal, setOrder, setI, rdVars, crashed,
                   intVars, floatVars, histVars, regVars, expVars>>

\* m.keys = make([]string, len(m.m)), line 498: a new array of empty
\* strings; a slice of the old array keeps the old array.  The range of
\* line 500 fixes its order here.
MapSetMake(id) ==
    /\ ~crashed
    /\ mapMu[id] = "Set"
    /\ setPc = "stored"
    /\ mapKeys' = [mapKeys EXCEPT ![id] = [i \in 1..Cardinality(KeysOf(mapM[id])) |-> <<>>]]
    /\ \E o \in RangeOrders(mapM[id]) : setOrder' = o
    /\ setI' = 1
    /\ rdLive' = FALSE
    /\ rdArr' = IF rdLive THEN mapKeys[id] ELSE rdArr
    /\ setPc' = "fill"
    /\ UNCHANGED <<mapM, flat, doVars, setKey, setVal, rdPc, rdOut, rdIdx, rdLen, rdSeen, crashed,
                   intVars, floatVars, histVars, regVars, expVars>>

\* m.keys[i] = k; i++, lines 501-502.
MapSetFill(id) ==
    /\ ~crashed
    /\ mapMu[id] = "Set"
    /\ setPc = "fill"
    /\ setI <= Len(setOrder)
    /\ mapKeys' = [mapKeys EXCEPT ![id][setI] = setOrder[setI]]
    /\ setI' = setI + 1
    /\ UNCHANGED <<mapM, flat, doVars, setPc, setKey, setVal, setOrder, rdVars, crashed,
                   intVars, floatVars, histVars, regVars, expVars>>

\* sort.Strings(m.keys), line 505, once the range has ended.
MapSetSort(id) ==
    /\ ~crashed
    /\ mapMu[id] = "Set"
    /\ setPc = "fill"
    /\ setI > Len(setOrder)
    /\ mapKeys' = [mapKeys EXCEPT ![id] = SortStrings(mapKeys[id])]
    /\ setPc' = "sorted"
    /\ UNCHANGED <<mapM, flat, doVars, setKey, setVal, setOrder, setI, rdVars, crashed,
                   intVars, floatVars, histVars, regVars, expVars>>

\* The deferred m.mu.Unlock() of Set, line 493.
MapSetUnlock(id) ==
    /\ ~crashed
    /\ mapMu[id] = "Set"
    /\ setPc = "sorted"
    /\ mapMu' = [mapMu EXCEPT ![id] = "free"]
    /\ setPc' = "idle"
    /\ setKey' = <<>>
    /\ setVal' = Nil
    /\ setOrder' = <<>>
    /\ setI' = 0
    /\ UNCHANGED <<mapM, mapKeys, flat, doIdx, doSeen, doStart, doPub, rdVars, crashed,
                   intVars, floatVars, histVars, regVars, expVars>>

\* m.mu.Lock() of Items(), lines 485-486, and the call of flattenMap on the
\* receiver's own m and keys, line 488.
MapItemsLock(id) ==
    /\ ~crashed
    /\ rdPc = "idle"
    /\ MuFree(id)
    /\ mapMu' = [mapMu EXCEPT ![id] = "Items"]
    /\ rdPc' = "outer"
    /\ rdOut' = 1
    /\ rdSeen' = <<>>
    /\ flat' = <<>>
    /\ UNCHANGED <<mapM, mapKeys, doIdx, doSeen, doStart, doPub, setVars, rdIdx, rdLen, rdLive, rdArr,
                   crashed, intVars, floatVars, histVars, regVars, expVars>>

\* One pass of the outer flattenMap's loop, lines 465-479: for a *Map the
\* recursive call is passed v.m and v.keys as they are, with v.mu not taken
\* (line 471); the pairs of any other variable are appended.
FlattenOuter(id) ==
    /\ ~crashed
    /\ mapMu[id] = "Items"
    /\ rdPc = "outer"
    /\ rdOut <= Len(mapKeys[id])
    /\ LET k == mapKeys[id][rdOut]
           v == MapLookup(mapM[id], k)
       IN  IF v.type = "Map"
              THEN /\ rdPc' = "inner"
                   /\ rdIdx' = 1
                   /\ rdLen' = Len(mapKeys[v.map])
                   /\ rdLive' = TRUE
                   /\ UNCHANGED <<rdOut, flat>>
              ELSE /\ flat' = flat \o [i \in 1..Len(LeafItems(v)) |->
                                        [Key |-> MapKey(id) \o <<".">> \o k,
                                         Value |-> LeafItems(v)[i].Value]]
                   /\ rdOut' = rdOut + 1
                   /\ UNCHANGED <<rdPc, rdIdx, rdLen, rdLive>>
    /\ UNCHANGED <<mapM, mapKeys, doVars, setVars, rdArr, rdSeen, crashed,
                   intVars, floatVars, histVars, regVars, expVars>>

\* The array the inner flattenMap's keys slice points at.
InnerKeys(nid) == IF rdLive THEN mapKeys[nid] ELSE rdArr

\* One pass of the inner flattenMap's loop over the nested Map nid: k is
\* read from the slice, val := m[k] from the nested Map's live m (line 466);
\* v.Items() on the nil interface is a nil dereference (line 473).
FlattenInner(id, nid) ==
    /\ ~crashed
    /\ mapMu[id] = "Items"
    /\ rdPc = "inner"
    /\ mapM[id][mapKeys[id][rdOut]] = MapVar(nid)
    /\ rdIdx <= rdLen
    /\ LET k == InnerKeys(nid)[rdIdx]
           v == MapLookup(mapM[nid], k)
       IN  /\ rdSeen' = Append(rdSeen, [name |-> k, var |-> v])
           /\ IF v = Nil
                 THEN crashed' = TRUE /\ flat' = flat
                 ELSE /\ crashed' = FALSE
                      /\ flat' = flat \o [i \in 1..Len(LeafItems(v)) |->
                                           [Key |-> MapKey(id) \o <<".">> \o mapKeys[id][rdOut]
                                                      \o <<".">> \o k,
                                            Value |-> LeafItems(v)[i].Value]]
    /\ rdIdx' = rdIdx + 1
    /\ UNCHANGED <<mapM, mapKeys, doVars, setVars, rdPc, rdOut, rdLen, rdLive, rdArr,
                   intVars, floatVars, histVars, regVars, expVars>>

\* The inner flattenMap returns (line 481) and the outer loop goes on.
FlattenInnerReturn(id) ==
    /\ ~crashed
    /\ mapMu[id] = "Items"
    /\ rdPc = "inner"
    /\ rdIdx > rdLen
    /\ rdPc' = "outer"
    /\ rdOut' = rdOut + 1
    /\ rdIdx' = 0
    /\ rdLen' = 0
    /\ rdLive' = FALSE
    /\ rdArr' = <<>>
    /\ UNCHANGED <<mapM, mapKeys, flat, doVars, setVars, rdSeen, crashed,
                   intVars, floatVars, histVars, regVars, expVars>>

\* The outer flattenMap returns and the deferred m.mu.Unlock() of Items runs.
MapItemsUnlock(id) ==
    /\ ~crashed
    /\ mapMu[id] = "Items"
    /\ rdPc = "outer"
    /\ rdOut > Len(mapKeys[id])
    /\ mapMu' = [mapMu EXCEPT ![id] = "free"]
    /\ rdPc' = "idle"
    /\ rdOut' = 0
    /\ rdSeen' = <<>>
    /\ UNCHANGED <<mapM, mapKeys, flat, doIdx, doSeen, doStart, doPub, setVars, rdIdx, rdLen, rdLive,
                   rdArr, crashed, intVars, floatVars, histVars, regVars, expVars>>

\* v.Items() through the Var interface.
VarItems(v) == IF v.type = "Map" THEN MapItems(v.map) ELSE LeafItems(v)

\* What the examples' visitor prints of v: v.Items()[0].Value ("" here for a
\* variable with no pairs).
VisitorReads(v) == IF VarItems(v) = <<>> THEN "" ELSE VarItems(v)[1].Value

\* (*Map).Do takes m.mu (lines 511-512); one pass at a time is modelled.
MapDoLock(id) ==
    /\ \A i \in MapIds : mapMu[i] # "Do"
    /\ MuFree(id)
    /\ mapMu' = [mapMu EXCEPT ![id] = "Do"]
    /\ doIdx' = 1
    /\ doSeen' = <<>>
    /\ doStart' = mapM[id]
    /\ UNCHANGED <<mapM, mapKeys, flat, doPub, raceVars, intVars, floatVars, histVars, regVars, expVars>>

\* One pass of Do's loop body: v := m.m[k]; fn(k, v) (lines 514-517).
MapDoVisit(id) ==
    /\ mapMu[id] = "Do"
    /\ doPub = Nil
    /\ doIdx <= Len(mapKeys[id])
    /\ LET k == mapKeys[id][doIdx]
           v == mapM[id][k]
       IN  doSeen' = Append(doSeen, [key |-> k, var |-> v, val |-> VisitorReads(v)])
    /\ doIdx' = doIdx + 1
    /\ UNCHANGED <<mapM, mapKeys, flat, mapMu, doStart, doPub, raceVars, intVars, floatVars,
                   histVars, regVars, expVars>>

\* One pass of Do's loop body with a visitor that publishes what it is
\* given: fn(k, v) is called (line 516) and calls Publish(v), which waits
\* for the registry lock (line 522).
MapDoVisitPublish(id) ==
    /\ mapMu[id] = "Do"
    /\ doPub = Nil
    /\ doIdx <= Len(mapKeys[id])
    /\ Len(varsL) < MaxVars
    /\ LET k == mapKeys[id][doIdx]
           v == mapM[id][k]
       IN  /\ doSeen' = Append(doSeen, [key |-> k, var |-> v, val |-> VisitorReads(v)])
           /\ doPub' = v
    /\ UNCHANGED <<mapM, mapKeys, flat, mapMu, doIdx, doStart, raceVars, intVars, floatVars,
                   histVars, regVars, expVars>>

\* Do's loop has ended; the deferred m.mu.Unlock() runs.
MapDoUnlock(id) ==
    /\ mapMu[id] = "Do"
    /\ doIdx > Len(mapKeys[id])
    /\ mapMu' = [mapMu EXCEPT ![id] = "free"]
    /\ UNCHANGED <<mapM, mapKeys, flat, doIdx, doSeen, doStart, doPub, raceVars, intVars, floatVars,
                   histVars, regVars, expVars>>

(***************************************************************************)
(* Histogram.  Its source file is not in the repository snapshot; it is    *)
(* modelled from section 4.4 of the specification and from the names its   *)
(* tests use (NewHistogram, Record, counter, takeSnapshot, percentile).    *)
(* Record and takeSnapshot run under the Histogram's lock, held for the    *)
(* write or the copy only; a statistics query is takeSnapshot followed by  *)
(* a reduction of the snapshot buffer, the lock released in between.       *)
(***************************************************************************)
Slots    == 1..HistCap
Samples  == {1, 2}          \* the values the application records
Queriers == {1, 2}          \* the goroutines asking for statistics
\* Requested percentiles, in hundredths of a percent: 0, 50, 99.99 and 100.
Percentiles == {0, 5000, 9999, 10000}
NoResult == [p |-> -1, res |-> 0, own |-> TRUE, min |-> 0, max |-> 0]

\* NewHistogram(name, HistCap): zeroed buffers, counter 0.
InitHist ==
    /\ hValues = [i \in Slots |-> 0]
    /\ hCounter = 0
    /\ hSnapshot = [i \in Slots |-> 0]
    /\ hRecorded = <<>>
    /\ hSnapCount = 0
    /\ qpc = [q \in Queriers |-> "idle"]
    /\ qsnap = [q \in Queriers |-> <<>>]
    /\ last = NoResult

\* A plausible slip: the counter is incremented before the slot is chosen.
RecordSlotAfterIncrement(n) == ((n + 1) % HistCap) + 1

\* The slot a Record writes when the write counter is n: n mod capacity
\* (slots are numbered from 1 here).
RecordSlot(n) == (n % HistCap) + 1

\* Record(v): write slot (counter mod capacity), then increment the counter,
\* under the lock.
Record(v) ==
    /\ hCounter < MaxRecords
    /\ hValues' = [hValues EXCEPT ![RecordSlot(hCounter)] = v]
    /\ hCounter' = hCounter + 1
    /\ hRecorded' = Append(hRecorded, v)
    /\ UNCHANGED <<hSnapshot, hSnapCount, qpc, qsnap, last, intVars, floatVars, mapVars, regVars, expVars>>

\* takeSnapshot, called first by every statistics query: copy the sample
\* buffer into the snapshot buffer, under the lock.
takeSnapshot(q) ==
    /\ qpc[q] = "idle"
    /\ hSnapshot' = hValues
    /\ hSnapCount' = hCounter
    /\ qsnap' = [qsnap EXCEPT ![q] = hValues]
    /\ qpc' = [qpc EXCEPT ![q] = "snap"]
    /\ UNCHANGED <<hValues, hCounter, hRecorded, last, intVars, floatVars, mapVars, regVars,
                   expVars>>

\* Insert v into the ascending sequence s.
RECURSIVE InsertInt(_, _)
InsertInt(v, s) == IF s = <<>> THEN <<v>>
                   ELSE IF v < Head(s) THEN <<v>> \o s
                   ELSE <<Head(s)>> \o InsertInt(v, Tail(s))

\* The snapshot sorted ascending.
RECURSIVE SortInts(_)
SortInts(s) == IF s = <<>> THEN <<>> ELSE InsertInt(Head(s), SortInts(Tail(s)))

\* A plausible slip: the index is rounded down.
percentileIndexFloor(n, p) == (p * (n - 1)) \div 10000

\* index = ceil(p / 100 * (size - 1)), p in hundredths of a percent.
percentileIndex(n, p) == ((p * (n - 1)) + 9999) \div 10000

\* percentile(p) of the snapshot snap (nearest rank; indices count from 0).
percentile(snap, p) == SortInts(snap)[percentileIndex(Len(snap), p) + 1]

\* A plausible slip: a guard that skips the slots that hold zero.
RECURSIVE histMinSkipZero(_)
histMinSkipZero(snap) ==
    IF snap = <<>> THEN 0
    ELSE LET rest == histMinSkipZero(Tail(snap))
         IN  IF Head(snap) = 0 THEN rest
             ELSE IF rest = 0 \/ Head(snap) < rest THEN Head(snap) ELSE rest

\* min(): the smallest value of the snapshot, over all of its slots; 0 for
\* a zero-capacity buffer.
RECURSIVE histMin(_)
histMin(snap) ==
    IF snap = <<>> THEN 0
    ELSE IF Len(snap) = 1 THEN Head(snap)
    ELSE LET rest == histMin(Tail(snap))
         IN  IF Head(snap) < rest THEN Head(snap) ELSE rest

\* max(): the largest value of the snapshot, over all of its slots.
RECURSIVE histMax(_)
histMax(snap) ==
    IF snap = <<>> THEN 0
    ELSE IF Len(snap) = 1 THEN Head(snap)
    ELSE LET rest == histMax(Tail(snap))
         IN  IF Head(snap) > rest THEN Head(snap) ELSE rest

\* The reduction of a statistics query: it reads the snapshot buffer, with no
\* lock held, and returns.
Reduce(q) ==
    /\ qpc[q] = "snap"
    /\ \E p \in Percentiles :
          last' = [p |-> p, res |-> percentile(hSnapshot, p), own |-> hSnapshot = qsnap[q],
                   min |-> histMin(hSnapshot), max |-> histMax(hSnapshot)]
    /\ qpc' = [qpc EXCEPT ![q] = "idle"]
    /\ qsnap' = [qsnap EXCEPT ![q] = <<>>]
    /\ UNCHANGED <<hValues, hCounter, hSnapshot, hRecorded, hSnapCount, intVars, floatVars,
                   mapVars, regVars, expVars>>

(***************************************************************************)
(* Registry: Publish and Do (lines 520-535).                               *)
(***************************************************************************)
\* A plausible slip: the new variable is put in front.
PublishFront(l, v) == <<v>> \o l

\* A plausible slip: the new variable replaces the list.
PublishReplace(l, v) == <<v>>

\* vars.l = append(vars.l, v), line 523.
Publish(l, v) == Append(l, v)

\* What the application publishes: NewInt("a") and NewMap("g").
Publishable == {IntVar(1), MapVar("root")}

\* Do holds vars.Mutex for the whole pass (lines 530-534).
VarsLocked == epc = "do"

(***************************************************************************)
(* Exporter: report and appendMetric (lines 580-614), called on every      *)
(* tick by Export (lines 549-554), or directly with a nil config as the    *)
(* tests do.  A line of the buffer is kept as the three pieces             *)
(* appendMetric writes for it, and the buffer as its sequence of lines; a  *)
(* failing Write takes a number of whole lines.                            *)
(***************************************************************************)
NilConfig == [nil |-> TRUE, Prefix |-> <<>>, Addr |-> ""]
\* &Config{} with no Addr set.
NoAddrConfig == [nil |-> FALSE, Prefix |-> <<>>, Addr |-> ""]
Configs == {NilConfig, NoAddrConfig,
            [nil |-> FALSE, Prefix |-> <<>>, Addr |-> "h:2003"],
            [nil |-> FALSE, Prefix |-> <<"p">>, Addr |-> "h:2003"]}

\* What timeFn() (defaulTimeNow, lines 576-578) may return now: the second
\* of its last call or a later one.
timeFn == clock..MaxClock

\* A plausible slip: the prefix is glued to the key without the dot.
appendMetricPrefixNoDot(c) ==
    IF ~c.nil /\ c.Prefix # <<>> THEN c.Prefix ELSE <<>>

\* appendMetric's prefix (lines 581-584).
appendMetricPrefix(c) ==
    IF ~c.nil /\ c.Prefix # <<>> THEN c.Prefix \o <<".">> ELSE <<>>

\* The three writes of appendMetric's loop body (lines 587-589), timeFn()
\* having returned now.
appendMetricLine(c, kv, now) ==
    << Str(appendMetricPrefix(c) \o kv.Key) \o " " \o kv.Value \o " ",
       FormatInt(now),
       "\n" >>

\* The text of a line.
LineText(l) == l[1] \o l[2] \o l[3]

InitReg ==
    /\ varsL = <<>>
    /\ published = <<>>

\* Who will call report: Export ("start"), or the application itself with
\* its own dialFn installed ("direct", the tests' reset()).
InitDriver(mode) ==
    /\ xpc = mode
    /\ exportErr = "none"

InitExport(c) ==
    /\ config = c
    /\ conn = "nil"
    /\ pool = <<>>
    /\ clock = 0
    /\ epc = "idle"
    /\ buf = <<>>
    /\ bufStart = 0
    /\ walkIdx = 1
    /\ items = <<>>
    /\ visited = <<>>
    /\ sent = 0
    /\ ticks = 0
    /\ tickDials = 0
    /\ tickWrites = 0
    /\ tickLogs = 0
    /\ lastErr = "none"
    /\ prevErr = "none"
    /\ connAtTick = "nil"

\* The groups as the application built them at startup:
\* nested.Init().Set("a", Func(...)); root.Set("b", &nested).
InitMapBuilt ==
    /\ mapM = [id \in MapIds |->
                 IF id = "root"
                    THEN [k \in Names |-> IF k = <<"b">> THEN MapVar("nested") ELSE Nil]
                    ELSE [k \in Names |-> IF k = <<"a">> THEN FuncVar ELSE Nil]]
    /\ mapKeys = [id \in MapIds |-> IF id = "root" THEN <<<<"b">>>> ELSE <<<<"a">>>>]
    /\ flat = <<>>
    /\ InitDo

\* Export's logger calls after report returned err (lines 551-553); a
\* direct caller of report(nil) gets the error back instead.
Logged(err) == IF err # "none" /\ xpc = "loop" THEN 1 ELSE 0

\* A plausible slip: Export returns when report fails.
ExportNextReturns(x, err) == IF x = "loop" /\ err # "none" THEN "returned" ELSE x

\* Where the caller of report goes after it returned err: Export's loop logs
\* and waits for the next tick whatever err is (lines 550-554).
ExportNext(x, err) == x

\* A plausible slip: the buffer is written line by line.
WriteCallsPerLine(b) == Len(b)

\* The conn.Write calls io.Copy makes for the buffer's content b (line 607):
\* bytes.Buffer.WriteTo calls Write once with all of it, and not at all when
\* the buffer is empty.
WriteCalls(b) == IF b = <<>> THEN 0 ELSE 1

\* A plausible slip: the nil check is missing.
ExportRejectsNever(c) == FALSE

\* if config == nil { return ErrInvalidConfig } (lines 538-540): the only
\* check Export makes of its configuration.
ExportRejects(c) == c.nil

\* Export(config) is called: it returns ErrInvalidConfig or creates the
\* ticker and waits for its first tick (lines 537-549).
ExportCall ==
    /\ xpc = "start"
    /\ IF ExportRejects(config)
          THEN xpc' = "returned" /\ exportErr' = "ErrInvalidConfig"
          ELSE xpc' = "loop" /\ exportErr' = "none"
    /\ UNCHANGED <<intVars, floatVars, mapVars, histVars, regVars, config, conn, pool, clock, epc, buf,
                   bufStart, walkIdx, items, visited, sent, ticks, tickDials, tickWrites,
                   tickLogs, lastErr, prevErr, connAtTick>>

\* Whether dialFn(config) can return a connection: net.Dial("tcp", "") fails
\* with "missing address" (line 573); a direct caller of report installs a
\* dialFn of its own.
DialCanSucceed(c) == xpc = "direct" \/ c.Addr # ""

\* The application publishes a variable (blocked while Do holds the lock).
PublishCall(v) ==
    /\ ~VarsLocked
    /\ Len(varsL) < MaxVars
    /\ varsL' = Publish(varsL, v)
    /\ published' = Append(published, v)
    /\ UNCHANGED <<intVars, floatVars, mapVars, histVars, expVars>>

\* The Publish call of Do's visitor gets the registry lock (lines 522-524)
\* and the visitor returns to Do's loop.
MapDoPublish(id) ==
    /\ mapMu[id] = "Do"
    /\ doPub # Nil
    /\ ~VarsLocked
    /\ varsL' = Publish(varsL, doPub)
    /\ published' = Append(published, doPub)
    /\ doPub' = Nil
    /\ doIdx' = doIdx + 1
    /\ UNCHANGED <<mapM, mapKeys, flat, mapMu, doSeen, doStart, raceVars, intVars, floatVars,
                   histVars, expVars>>

\* The application sets a published Int (once).
AppIntSet(id) ==
    /\ intI[id] = 0
    /\ IntSet(id, MaxInt64)
    /\ UNCHANGED <<ipc, icall, floatVars, mapVars, histVars, regVars, expVars>>

\* if conn == nil (line 594)
NeedDial(c) == c = "nil"

\* A plausible slip: a failed dial leaves a non-nil value in conn.
DialFailConnKept == "live"

\* conn after "conn, err = dialFn(config)" returned an error (line 596):
\* net.Dial returns a nil Conn with its error.
DialFailConn == "nil"

\* A plausible slip: the connection is kept after a failed write.
WriteFailConnKept == "live"

\* conn after a failed io.Copy (line 609).
WriteFailConn == "nil"

\* The ticker fires and report(config) is entered (lines 550-551, 594): what
\* every tick starts with.
TickEnter ==
    /\ xpc \in {"loop", "direct"}
    /\ epc = "idle"
    /\ ticks < MaxTicks
    /\ ticks' = ticks + 1
    /\ prevErr' = lastErr
    /\ connAtTick' = conn
    /\ tickDials' = IF NeedDial(conn) THEN 1 ELSE 0
    /\ tickWrites' = 0
    /\ sent' = 0
    /\ visited' = <<>>

\* A tick whose dial fails: report returns the error and Export logs it
\* (lines 594-599, 551-553).
TickDialFail ==
    /\ TickEnter
    /\ NeedDial(conn)
    /\ conn' = DialFailConn
    /\ lastErr' = "dial"
    /\ tickLogs' = Logged("dial")
    /\ xpc' = ExportNext(xpc, "dial")
    /\ epc' = "idle"
    /\ UNCHANGED <<intVars, floatVars, mapVars, histVars, regVars, config, exportErr, pool, clock, buf, bufStart,
                   walkIdx, items>>

\* A tick that holds a connection, dialled now (line 596) or kept from an
\* earlier tick.  buf := bufPool.Get() (line 602) is the pooled buffer as it
\* was Put, or a new one when the pool holds none (sync.Pool may drop what
\* it holds); then Do takes the registry lock (line 530).
TickFlush ==
    /\ TickEnter
    /\ NeedDial(conn) => DialCanSucceed(config)
    /\ conn' = "live"
    /\ lastErr' = "none"
    /\ \E b \in {pool, <<>>} :
          /\ buf' = b
          /\ bufStart' = Len(b)
    /\ pool' = <<>>
    /\ walkIdx' = 1
    /\ items' = <<>>
    /\ tickLogs' = 0
    /\ epc' = "do"
    /\ UNCHANGED <<intVars, floatVars, mapVars, histVars, regVars, config, xpc, exportErr, clock>>

\* Do's loop calls fn(v) for the next entry; appendMetric calls v.Items()
\* (lines 531-532, 586).
Visit ==
    /\ epc = "do"
    /\ items = <<>>
    /\ walkIdx <= Len(varsL)
    /\ varsL[walkIdx].type = "Map" => MuFree(varsL[walkIdx].map)     \* m.mu.Lock(), line 485
    /\ items' = VarItems(varsL[walkIdx])
    /\ visited' = Append(visited, varsL[walkIdx])
    /\ walkIdx' = walkIdx + 1
    /\ UNCHANGED <<intVars, floatVars, mapVars, histVars, regVars, config, xpc, exportErr, conn, pool, clock, epc, buf,
                   bufStart, sent, ticks, tickDials, tickWrites, tickLogs, lastErr, prevErr,
                   connAtTick>>

\* One pass of appendMetric's loop body (lines 587-589).
AppendLine ==
    /\ epc = "do"
    /\ items # <<>>
    /\ \E now \in timeFn :
          /\ buf' = Append(buf, appendMetricLine(config, Head(items), now))
          /\ clock' = now
    /\ items' = Tail(items)
    /\ UNCHANGED <<intVars, floatVars, mapVars, histVars, regVars, config, xpc, exportErr, conn, pool, epc,
                   bufStart, walkIdx, visited, sent, ticks, tickDials, tickWrites, tickLogs,
                   lastErr, prevErr, connAtTick>>

\* Do's loop has ended and the lock is released (line 534).
WalkDone ==
    /\ epc = "do"
    /\ items = <<>>
    /\ walkIdx > Len(varsL)

\* io.Copy(conn, buf) succeeds (line 607): bytes.Buffer.WriteTo hands the
\* unread content to conn.Write in one call (none when the buffer is empty)
\* and resets the buffer; the deferred Put returns it to the pool.
WriteOk ==
    /\ WalkDone
    /\ sent' = Len(buf)
    /\ tickWrites' = tickWrites + WriteCalls(buf)
    /\ xpc' = ExportNext(xpc, "none")
    /\ pool' = <<>>
    /\ buf' = <<>>
    /\ visited' = <<>>
    /\ epc' = "idle"
    /\ UNCHANGED <<intVars, floatVars, mapVars, histVars, regVars, config, exportErr, conn, clock, bufStart,
                   walkIdx, items, ticks, tickDials, tickLogs, lastErr, prevErr, connAtTick>>

\* io.Copy fails (lines 607-611): conn.Write took the first m lines and
\* returned an error; WriteTo leaves the rest unread in the buffer, report
\* drops the connection, the deferred Put returns the buffer to the pool and
\* Export logs the error.
WriteFail ==
    /\ WalkDone
    /\ buf # <<>>
    /\ \E m \in 0..(Len(buf) - 1) :
          /\ sent' = m
          /\ pool' = SubSeq(buf, m + 1, Len(buf))
    /\ tickWrites' = tickWrites + WriteCalls(buf)
    /\ xpc' = ExportNext(xpc, "write")
    /\ conn' = WriteFailConn
    /\ lastErr' = "write"
    /\ tickLogs' = Logged("write")
    /\ buf' = <<>>
    /\ visited' = <<>>
    /\ epc' = "idle"
    /\ UNCHANGED <<intVars, floatVars, mapVars, histVars, regVars, config, exportErr, clock, bufStart, walkIdx,
                   items, ticks, tickDials, prevErr, connAtTick>>

\* The steps of the export goroutine.
ExporterStep == TickDialFail \/ TickFlush \/ Visit \/ AppendLine \/ WriteOk \/ WriteFail

(***************************************************************************)
(* Specifications.                                                         *)
(***************************************************************************)
Init == InitInt /\ InitFloat(0) /\ InitMap /\ InitHist /\ InitReg /\ InitExport(NilConfig)
        /\ InitDriver("direct")

NextInt == \/ \E t \in Callers : IntAddCall(t)
           \/ \E t \in Callers : IntSetCall(t)

SpecInt == Init /\ [][NextInt]_vars

NextFloat == \/ \E t \in Callers : FloatAddCall(t)
             \/ \E t \in Callers : FloatAddLoad(t)
             \/ \E t \in Callers : FloatAddCas(t)

\* The Float has been Set to some value before the callers start.
InitFloatSet == InitInt /\ InitMap /\ InitHist /\ InitReg /\ InitExport(NilConfig) /\ InitDriver("direct")
                /\ \E v \in FloatInits : InitFloat(v)

SpecFloat == InitFloatSet /\ [][NextFloat]_vars

\* Each caller makes one call, Add or Set, on the Float; the Go scheduler
\* lets every runnable goroutine take its next step eventually.
NextFloatFair == \/ \E t \in Callers : FloatAddCall(t)
                 \/ \E t \in Callers : FloatSetCall(t)
                 \/ \E t \in Callers : FloatAddLoad(t)
                 \/ \E t \in Callers : FloatAddCas(t)

SpecFloatFair == InitFloatSet /\ [][NextFloatFair]_vars /\ \A t \in Callers : WF_vars(FloatStep(t))

NextMap == \/ \E id \in MapIds : MapSetCall(id)
           \/ \E id \in MapIds : MapItemsCall(id)

SpecMap == Init /\ [][NextMap]_vars

\* One goroutine runs Do passes over the Map "g" while others call Set on it
\* and Set a variable it may hold.
NextDo == \/ MapSetCall("root")
          \/ MapDoLock("root")
          \/ MapDoVisit("root")
          \/ MapDoUnlock("root")
          \/ AppIntSet(1)

SpecDo == Init /\ [][NextDo]_vars

\* Goroutines record into one Histogram while two others query its statistics.
NextHist == \/ \E v \in Samples : Record(v)
            \/ \E q \in Queriers : takeSnapshot(q)
            \/ \E q \in Queriers : Reduce(q)

SpecHist == Init /\ [][NextHist]_vars

NextExport == \/ \E v \in Publishable : PublishCall(v)
              \/ AppIntSet(1)
              \/ ExportCall
              \/ TickDialFail
              \/ TickFlush
              \/ Visit
              \/ AppendLine
              \/ WriteOk
              \/ WriteFail

\* The program as Export (or a direct caller of report) finds it: the groups
\* built, nothing published yet, some configuration.
InitExporting == InitInt /\ InitFloat(0) /\ InitMapBuilt /\ InitHist /\ InitReg
                 /\ \E c \in Configs : InitExport(c)
                 /\ \/ InitDriver("start")
                    \/ config = NilConfig /\ InitDriver("direct")

SpecExport == InitExporting /\ [][NextExport]_vars

\* The groups built, nothing published, report called directly.
InitRacing == InitInt /\ InitFloat(0) /\ InitMapBuilt /\ InitHist /\ InitReg
              /\ InitExport(NilConfig) /\ InitDriver("direct")

\* The steps of a goroutine in Map.Do on the Map "g".
DoStep == \/ MapDoVisit("root")
          \/ MapDoVisitPublish("root")
          \/ MapDoPublish("root")
          \/ MapDoUnlock("root")

\* The export goroutine flushes while the application publishes and runs Do
\* passes whose visitor may publish the variable it is given.  (Set takes
\* one Map lock and asks for no other lock while it holds it.)
NextLock == \/ \E v \in Publishable : PublishCall(v)
            \/ MapDoLock("root")
            \/ MapDoVisit("root")
            \/ MapDoVisitPublish("root")
            \/ MapDoPublish("root")
            \/ MapDoUnlock("root")
            \/ TickFlush
            \/ Visit
            \/ AppendLine
            \/ WriteOk

SpecLock == InitRacing /\ [][NextLock]_vars

\* The application calls Set, Init and Items on one Map, as ExampleMap_Init
\* does.
NextReinit == \/ MapSetCall("root")
              \/ MapInitCall("root")
              \/ MapItemsCall("root")
              \/ MapItemsPanic("root")

SpecReinit == Init /\ [][NextReinit]_vars

\* One goroutine calls Set on the nested Map while another calls Items on
\* the Map that holds it (the groups as TestMapInMap builds them).
NextRace == \/ MapSetLock("nested")
            \/ MapSetStore("nested")
            \/ MapSetMake("nested")
            \/ MapSetFill("nested")
            \/ MapSetSort("nested")
            \/ MapSetUnlock("nested")
            \/ MapItemsLock("root")
            \/ FlattenOuter("root")
            \/ FlattenInner("root", "nested")
            \/ FlattenInnerReturn("root")
            \/ MapItemsUnlock("root")

SpecRace == InitRacing /\ [][NextRace]_vars

(***************************************************************************)
(* Claims.                                                                 *)
(***************************************************************************)
IntAllReturned == \A t \in Callers : ipc[t] = "done"

\* The calls applied one at a time in the order o, from the constructed value 0.
RECURSIVE IntSeqResult(_, _)
IntSeqResult(o, n) ==
    IF n = 0 THEN 0
    ELSE LET c == icall[o[n]]
         IN  IF c.kind = "Add" THEN Wrap64(IntSeqResult(o, n - 1) + c.arg) ELSE c.arg

RECURSIVE IntDeltaSum(_)
IntDeltaSum(n) == IF n = 0 THEN 0 ELSE icall[n].arg + IntDeltaSum(n - 1)

\* C1: once every concurrent Add/Set call on one Int has returned, the value
\* Items() reports is the result of applying the calls one at a time in some
\* order; with Add calls only it is the initial value plus the sum of all
\* deltas (in int64 arithmetic): no update is lost.
C1_IntNoLostUpdate ==
    IntAllReturned =>
        /\ \E o \in CallOrders :
              IntItems(1)[1].Value = FormatInt(IntSeqResult(o, NumCallers))
        /\ (\A t \in Callers : icall[t].kind = "Add") =>
              IntItems(1)[1].Value = FormatInt(Wrap64(0 + IntDeltaSum(NumCallers)))

\* Every caller has added, the sum wrapped around, and Items() reports it.
C1_Witness ==
    /\ IntAllReturned
    /\ \A t \in Callers : icall[t] = [kind |-> "Add", arg |-> MaxInt64]
    /\ IntItems(1)[1].Value = FormatInt(Wrap64(NumCallers * MaxInt64))

FloatAllReturned == \A t \in Callers : fpc[t] = "done"

\* The deltas added one at a time, in float64 arithmetic, in the order o.
RECURSIVE FloatSeqResult(_, _)
FloatSeqResult(o, n) ==
    IF n = 0 THEN f0 ELSE RoundEven(FloatSeqResult(o, n - 1) + fdelta[o[n]])

RECURSIVE SumOver(_)
SumOver(S) == IF S = {} THEN 0
              ELSE LET t == CHOOSE x \in S : TRUE IN fdelta[t] + SumOver(S \ {t})

\* No partial sum of the deltas needs rounding.
FloatExact == \A S \in SUBSET Callers : RoundEven(f0 + SumOver(S)) = f0 + SumOver(S)

\* C2: once every concurrent Add call on one Float has returned, the stored
\* value is the initial value with every delta added exactly once (float64
\* additions taken in some order); where no partial sum needs rounding it is
\* the initial value plus the sum of all deltas.  No addition is dropped.
C2_FloatNoLostUpdate ==
    FloatAllReturned =>
        /\ \E o \in CallOrders :
              Float64frombits(floatF) = FloatSeqResult(o, NumCallers)
        /\ FloatExact => Float64frombits(floatF) = f0 + SumOver(Callers)

\* Every Add has returned, at least one of them had to retry its swap, and
\* the cell holds the full sum.
C2_Witness ==
    /\ FloatAllReturned
    /\ \E t \in Callers : fretries[t] > 0
    /\ FloatExact
    /\ Float64frombits(floatF) = f0 + SumOver(Callers)

\* The dot-separated segments of a key.
RECURSIVE Split(_, _)
Split(s, seg) ==
    IF s = <<>> THEN <<seg>>
    ELSE IF Head(s) = "." THEN <<seg>> \o Split(Tail(s), <<>>)
    ELSE Split(Tail(s), Append(seg, Head(s)))

\* p before q: at the first nesting depth where the paths differ, p's name
\* is the smaller one.
RECURSIVE PathLess(_, _)
PathLess(p, q) ==
    IF p = <<>> THEN q # <<>>
    ELSE IF q = <<>> THEN FALSE
    ELSE IF Head(p) # Head(q) THEN StrLess(Head(p), Head(q))
    ELSE PathLess(Tail(p), Tail(q))

KeyLess(a, b) == PathLess(Split(a, <<>>), Split(b, <<>>))

\* C3: Map.Items emits its keys in strictly ascending lexicographic order at
\* every nesting depth, whatever the order of the Set calls.
C3_FlattenStrictlyAscending ==
    \A j \in 1..(Len(flat) - 1) : KeyLess(flat[j].Key, flat[j + 1].Key)

\* Do's pass is over: every entry of vars.l has been visited and written.
Walked == epc = "do" /\ items = <<>> /\ walkIdx > Len(varsL)

\* The lines report has appended to buf in the current tick.
Fresh == SubSeq(buf, bufStart + 1, Len(buf))

\* C4: all lines produced within one flush share a single timestamp, even
\* when the clock advances while the registry is being walked.
C4_OneTimestampPerFlush ==
    epc = "do" => \A i, j \in 1..Len(Fresh) : Fresh[i][2] = Fresh[j][2]

\* C5: after a tick whose write failed, what the next successful tick writes
\* consists only of lines built during that tick: nothing buffered during
\* the failed tick is sent again.
C5_NoStaleLines ==
    (epc = "idle" /\ ticks >= 2 /\ prevErr = "write" /\ lastErr = "none") =>
        bufStart = 0

\* The text the claim gives for a pair: '<key> <value> <timestamp>\n', the
\* key preceded by '<prefix>.' when a prefix is configured.
WireLine(c, kv, ts) ==
    (IF c.nil \/ c.Prefix = <<>> THEN "" ELSE Str(c.Prefix) \o ".")
        \o Str(kv.Key) \o " " \o kv.Value \o " " \o ToString(ts) \o "\n"

\* C6: every pair a published variable produces yields exactly one line
\* '<key> <value> <timestamp>\n' in the flush buffer, the key preceded by
\* '<prefix>.' when the prefix is non-empty and unchanged when the prefix is
\* empty or the configuration is absent.
C6_OneLinePerPair ==
    [][ (epc = "do" /\ items # <<>> /\ items' # items) =>
            /\ items' = Tail(items)
            /\ Len(buf') = Len(buf) + 1
            /\ SubSeq(buf', 1, Len(buf)) = buf
            /\ LineText(buf'[Len(buf')]) = WireLine(config, Head(items), clock')
      ]_vars

\* A prefixed line of a grouped variable has been written at second 1.
C6_Witness ==
    /\ epc = "do"
    /\ ~config.nil /\ config.Prefix = <<"p">>
    /\ Len(Fresh) = 2
    /\ LineText(Fresh[2]) = "p.g.b.a 9 1\n"

RECURSIVE PairCount(_)
PairCount(l) == IF l = <<>> THEN 0 ELSE Len(VarItems(Head(l))) + PairCount(Tail(l))

\* C7: the registry holds the published variables in the order of the
\* Publish calls, a variable published twice being held twice; Do visits
\* them in that order, and a flush writes the lines of every one of them.
C7_PublishOrder ==
    /\ varsL = published
    /\ epc = "do" => visited = SubSeq(published, 1, Len(visited))
    /\ Walked => /\ visited = published
                 /\ Len(Fresh) = PairCount(published)

\* The same name published twice, after the group: both entries are visited
\* and both lines written.
C7_Witness ==
    /\ Walked
    /\ published = <<IntVar(1), IntVar(1)>>
    /\ Len(Fresh) = 2
    /\ Fresh[1][1] = Fresh[2][1]

\* C8: a tick that finds no connection dials once; when that dial fails the
\* tick ends with nothing written, the failure logged, the connection still
\* absent and no second dial.
C8_DialFailureEndsTick ==
    /\ (ticks > 0 /\ connAtTick = "nil") => tickDials = 1
    /\ (ticks > 0 /\ lastErr = "dial") =>
        /\ epc = "idle"
        /\ connAtTick = "nil"
        /\ tickDials = 1
        /\ tickWrites = 0
        /\ sent = 0
        /\ conn = "nil"
        /\ ~config.nil => tickLogs = 1

\* Export's loop has logged the failed dial of its second tick.
C8_Witness ==
    /\ ticks = 2
    /\ lastErr = "dial"
    /\ prevErr = "write"
    /\ ~config.nil
    /\ tickLogs = 1

\* C9: a write failure discards the connection, so the next tick dials; a
\* successful write keeps it, so the next tick does not dial; in every tick
\* a dial happens if and only if no connection is held when it starts.
C9_DialIffNoConnection ==
    /\ ticks > 0 => (tickDials = 1 <=> connAtTick = "nil")
    /\ tickDials <= 1
    /\ (epc = "idle" /\ lastErr = "write") => conn = "nil"
    /\ (epc = "idle" /\ ticks > 0 /\ lastErr = "none") => conn = "live"
    /\ (ticks >= 2 /\ prevErr = "write") => tickDials = 1
    /\ (ticks >= 2 /\ prevErr = "none") => tickDials = 0

\* A tick reused the connection its predecessor's successful write kept.
C9_Witness ==
    /\ ticks = 2
    /\ prevErr = "none"
    /\ connAtTick = "live"
    /\ tickDials = 0
    /\ epc = "idle"
    /\ sent > 0

\* The step that ends a failed tick (its dial or its write failed).
FailedTickEnds == lastErr' # "none" /\ (ticks' # ticks \/ epc' # epc)

\* C10: a failed tick leaves every Counter, Gauge, Group and the Registry as
\* they were; the only state it may change is the connection holder (so the
\* buffer pool holds afterwards what it held when the buffer was taken).
C10_FailedTickFrame ==
    [][ FailedTickEnds =>
            /\ UNCHANGED <<intI, floatF, mapM, mapKeys, varsL>>
            /\ pool' = IF ticks' # ticks THEN pool ELSE SubSeq(buf, 1, bufStart)
      ]_vars

\* C11: Export called with a configuration whose endpoint address is empty
\* returns the invalid-configuration error and performs no tick and no dial,
\* as it does for a missing configuration.
C11_NoAddrIsConfigError ==
    (xpc \notin {"start", "direct"} /\ ~config.nil /\ config.Addr = "") =>
        /\ xpc = "returned"
        /\ exportErr = "ErrInvalidConfig"
        /\ ticks = 0
        /\ tickDials = 0

\* C12: Export(nil) returns ErrInvalidConfig in its first step, before any
\* tick, dial or registry traversal, leaving the registry and the connection
\* holder as they were; nothing of the kind happens afterwards either.
C12_NilConfigRejected ==
    /\ [][ (xpc = "start" /\ config.nil /\ xpc' # xpc) =>
               /\ xpc' = "returned"
               /\ exportErr' = "ErrInvalidConfig"
               /\ UNCHANGED <<varsL, conn, ticks, tickDials, walkIdx, visited, epc>>
         ]_vars
    /\ []( (config.nil /\ xpc \notin {"start", "direct"}) =>
               /\ xpc = "returned"
               /\ exportErr = "ErrInvalidConfig"
               /\ ticks = 0
               /\ tickDials = 0
               /\ conn = "nil"
               /\ epc = "idle"
               /\ varsL = published )

\* Export(nil) has returned its error to an application that had published
\* a variable before the call.
C12_Witness ==
    /\ config.nil
    /\ xpc = "returned"
    /\ exportErr = "ErrInvalidConfig"
    /\ varsL = <<MapVar("root")>>
    /\ ticks = 0

\* C13: when a Map holds under a name a non-Map variable whose Items()
\* yields several pairs with distinct keys, Map.Items() yields one pair per
\* item, keyed by the group path, the name and the item's own key, so the
\* items of one variable keep distinct keys.
C13_ItemKeysKept ==
    \A id \in MapIds :
        (flat # <<>> /\ flat = MapItems(id)) =>
            \A k \in KeysOf(mapM[id]) :
                mapM[id][k] = FuncVar =>
                    \A j \in 1..Len(FuncItems) :
                        \E i \in 1..Len(flat) :
                            /\ flat[i].Key = MapKey(id) \o <<".">> \o k \o <<".">> \o FuncItems[j].Key
                            /\ flat[i].Value = FuncItems[j].Value

\* s is strictly ascending.
Ascending(s) == \A i \in 1..(Len(s) - 1) : StrLess(s[i], s[i + 1])

\* The elements of s.
Range(s) == {s[i] : i \in 1..Len(s)}

\* C16: after any sequence of Set calls on a Map, the key list holds exactly
\* the names present in the mapping, each once, in ascending order; a Set on
\* a name already present leaves the key list unchanged.
C16_KeysMatchMapping ==
    /\ [](\A id \in MapIds :
            /\ Range(mapKeys[id]) = KeysOf(mapM[id])
            /\ Len(mapKeys[id]) = Cardinality(KeysOf(mapM[id]))
            /\ Ascending(mapKeys[id]))
    /\ [][\A id \in MapIds :
            KeysOf(mapM'[id]) = KeysOf(mapM[id]) => mapKeys'[id] = mapKeys[id]]_vars

\* Three names set in descending order, then one of them replaced: the key
\* list is the ascending one.
C16_Witness ==
    /\ mapKeys["root"] = << <<"a">>, <<"a", "b">>, <<"b">> >>
    /\ mapM["root"][<<"a">>] = FuncVar
    /\ mapM["root"][<<"a", "b">>] = MapVar("nested")
    /\ mapM["root"][<<"b">>] = FloatVar

\* The names the visitor of the latest Do pass was called with, in call order.
SeenKeys == [i \in 1..Len(doSeen) |-> doSeen[i].key]

\* C17: one pass of Map.Do calls the visitor once for each name present
\* when the pass started, in ascending order, with the variable bound to it;
\* no Set on the Map takes effect during the pass, while Set on a contained
\* variable may.
C17_DoPass ==
    /\ \A id \in MapIds : mapMu[id] = "Do" => mapM[id] = doStart
    /\ Ascending(SeenKeys)
    /\ Range(SeenKeys) \subseteq KeysOf(doStart)
    /\ \A i \in 1..Len(doSeen) : doSeen[i].var = doStart[doSeen[i].key]
    /\ \A k \in KeysOf(doStart) \ Range(SeenKeys) :
          \A i \in 1..Len(doSeen) : StrLess(doSeen[i].key, k)
    /\ (doIdx > 0 /\ \A id \in MapIds : mapMu[id] = "free") =>
          /\ Range(SeenKeys) = KeysOf(doStart)
          /\ Len(doSeen) = Cardinality(KeysOf(doStart))

\* A finished pass over three names, two of them bound to the same Int,
\* which was Set between the two visits.
C17_Witness ==
    /\ doIdx > 0
    /\ mapMu["root"] = "free"
    /\ Len(doSeen) = 3
    /\ doSeen[1] = [key |-> <<"a">>, var |-> IntVar(1), val |-> "0"]
    /\ doSeen[3] = [key |-> <<"b">>, var |-> IntVar(1), val |-> FormatInt(MaxInt64)]

\* The step that ends a tick: report returns to its caller.
TickEnds == (epc = "idle" /\ ticks' = ticks + 1 /\ epc' = "idle") \/ (epc = "do" /\ epc' = "idle")

\* C18: Export's loop makes one flush attempt per tick and goes on after a
\* failed dial or write: the failure is logged once, Export does not return,
\* and a later tick whose dial and write succeed delivers its payload.
C18_LoopSurvivesFailure ==
    /\ [][ xpc = "loop" =>
              /\ xpc' = "loop"
              /\ exportErr' = "none"
              /\ TickEnds => tickLogs' = (IF lastErr' = "none" THEN 0 ELSE 1)
              /\ (TickEnds /\ lastErr' = "none") =>
                    /\ sent' = Len(buf)
                    /\ sent' >= PairCount(varsL)
              /\ ticks' \in {ticks, ticks + 1}
         ]_vars
    /\ [](tickDials <= 1 /\ tickWrites <= 1 /\ tickLogs <= 1)

\* Inside Export's loop, a tick that failed in its write was followed by a
\* tick that delivered a payload.
C18_Witness ==
    /\ xpc = "loop"
    /\ epc = "idle"
    /\ ticks = 2
    /\ prevErr = "write"
    /\ lastErr = "none"
    /\ sent > 0
    /\ tickLogs = 0

\* The steps of the exporter and of Export's caller: everything but Publish.
NotPublishStep == published' = published

\* C19: the registry is empty until the first Publish call; every Publish
\* makes it one longer, keeping what it held in place; nothing else (Do, a
\* successful or a failed flush) changes it.
C19_RegistryOnlyGrows ==
    /\ [](Len(published) = 0 => varsL = <<>>)
    /\ [][ /\ NotPublishStep => varsL' = varsL
           /\ ~NotPublishStep =>
                 /\ Len(varsL') = Len(varsL) + 1
                 /\ SubSeq(varsL', 1, Len(varsL)) = varsL
                 /\ varsL'[Len(varsL')] = published'[Len(published')]
         ]_vars

\* The registry holds two different variables after a failed flush.
C19_Witness ==
    /\ Len(varsL) = 2
    /\ ticks = 1
    /\ lastErr = "write"
    /\ epc = "idle"
    /\ varsL[1] # varsL[2]

\* C20: a flush builds its payload in the buffer while Do walks the
\* registry, and hands it to the connection in one Write after the walk:
\* nothing is written during the walk, and a flush of an empty registry
\* succeeds without writing a byte.
C20_OneWriteAfterWalk ==
    /\ [](epc = "do" => (tickWrites = 0 /\ sent = 0))
    /\ [](tickWrites <= 1)
    /\ []((epc = "idle" /\ ticks > 0 /\ lastErr # "dial" /\ varsL = <<>>) =>
              (lastErr = "none" /\ sent = 0 /\ tickWrites = 0))
    /\ [][ (tickWrites' # tickWrites /\ ticks' = ticks) =>
              /\ Walked
              /\ tickWrites' = 1
              /\ lastErr' = "none" => sent' = Len(buf)
         ]_vars

\* One Write delivered a payload of three lines.
C20_Witness ==
    /\ epc = "idle"
    /\ lastErr = "none"
    /\ tickWrites = 1
    /\ bufStart = 0
    /\ sent = 3

\* Some query has reduced in this step.
Reduced == \E q \in Queriers : qpc[q] = "snap" /\ qpc'[q] = "idle"

\* r has rank k in s: fewer than k+1 elements are below it, more than k are
\* not above it (r is what stands at index k of s sorted ascending).
HasRank(s, r, k) ==
    /\ Cardinality({i \in DOMAIN s : s[i] < r}) <= k
    /\ Cardinality({i \in DOMAIN s : s[i] <= r}) > k

\* k = ceil(p / 100 * (n - 1)), p in hundredths of a percent.
IsCeil(k, p, n) == k * 10000 >= p * (n - 1) /\ (k - 1) * 10000 < p * (n - 1)

\* C14: percentile(p) returns the element at index ceil(p / 100 * (size - 1))
\* of the snapshot sorted ascending: percentile(0) is the smallest sample,
\* percentile(100) the largest, the result is non-decreasing in p and is one
\* of the snapshot's values.
C14_NearestRank ==
    /\ [][ Reduced =>
              \E k \in 0..(HistCap - 1) :
                  /\ IsCeil(k, last'.p, HistCap)
                  /\ HasRank(hSnapshot, last'.res, k)
         ]_vars
    /\ [](/\ \A i \in Slots : percentile(hSnapshot, 0) <= hSnapshot[i]
          /\ \A i \in Slots : percentile(hSnapshot, 10000) >= hSnapshot[i]
          /\ \A p1, p2 \in Percentiles :
                p1 <= p2 => percentile(hSnapshot, p1) <= percentile(hSnapshot, p2)
          /\ \A p1 \in Percentiles : percentile(hSnapshot, p1) \in Range(hSnapshot))

\* percentile(50) of a snapshot holding 2 and then 1 has returned 2, the
\* element at index ceil(0.5 * (size - 1)) of the sorted snapshot.
C14_Witness ==
    /\ hSnapshot[1] = 2
    /\ hSnapshot[HistCap] = 1
    /\ last.p = 5000
    /\ last.res = 2
    /\ last.own

\* The values the Record calls wrote to slot i, in order.
WrittenTo(i) == {hRecorded[k] : k \in {j \in 1..Len(hRecorded) : ((j - 1) % HistCap) + 1 = i}}

\* C15: a statistics query is computed against one consistent snapshot: every
\* value of it is one some Record wrote to that slot (or the initial zero),
\* and neither Record calls nor other statistics queries running after the
\* snapshot was taken change the values the query is reduced from.
C15_ConsistentSnapshot ==
    /\ \A q \in Queriers : qpc[q] = "snap" =>
          \A i \in Slots : qsnap[q][i] \in WrittenTo(i) \cup {0}
    /\ last.own

\* The greater and the smaller of two integers.
Larger(a, b) == IF a > b THEN a ELSE b
Smaller(a, b) == IF a < b THEN a ELSE b

\* C21: after n Record calls on a Histogram of capacity c, the write counter
\* is n and the buffer holds the last min(n, c) recorded values, the k-th
\* Record (from 0) having written slot k mod c; slots never written are 0.
C21_RingBuffer ==
    LET n == Len(hRecorded)
    IN  /\ hCounter = n
        /\ \A k \in Larger(0, n - HistCap)..(n - 1) : hValues[(k % HistCap) + 1] = hRecorded[k + 1]
        /\ \A i \in Slots : i > n => hValues[i] = 0

\* More values were recorded than the buffer holds, and the oldest one, a 1
\* in slot 0, was overwritten by a 2.
C21_Witness ==
    /\ hCounter > HistCap
    /\ hRecorded[1] = 1
    /\ hRecorded[HistCap + 1] = 2
    /\ hValues[1] = 2

\* The samples a snapshot taken after the first n Record calls ranges over:
\* the last HistCap recorded values, and zero while slots are unwritten.
SnapshotSamples(n) ==
    {hRecorded[k] : k \in Larger(1, n - HistCap + 1)..n} \cup (IF n < HistCap THEN {0} ELSE {})

\* C22: the statistics range over all slots of the buffer: while fewer
\* values than slots have been recorded the unwritten slots count as zeros
\* (min() of positive samples is then 0); once the buffer is full min() and
\* max() are the smallest and the largest of the last c recorded values.
C22_ZeroPadded ==
    [][ Reduced =>
          /\ last'.min \in SnapshotSamples(hSnapCount)
          /\ last'.max \in SnapshotSamples(hSnapCount)
          /\ \A v \in SnapshotSamples(hSnapCount) : last'.min <= v /\ v <= last'.max
          /\ hSnapCount < HistCap => last'.min = 0
      ]_vars

\* min() of a partly filled histogram of positive samples has returned 0,
\* max() the sample.
C22_Witness ==
    /\ hSnapCount = HistCap - 1
    /\ \A i \in Slots : i < HistCap => hSnapshot[i] = 2
    /\ last.p >= 0
    /\ last.min = 0
    /\ last.max = 2
    /\ last.own

\* C23: while Set runs on the nested Map, every name the flattening of the
\* outer Map reads from the nested key list has a variable in the nested
\* mapping, and the names are read in ascending order.
C23_NestedReadProtected ==
    /\ \A i \in 1..Len(rdSeen) : rdSeen[i].var # Nil
    /\ Ascending([i \in 1..Len(rdSeen) |-> rdSeen[i].name])

\* C24: with no operation in progress on a Map, every name in its key list
\* is a key of its mapping bound to a variable, also after Init on a Map that
\* holds entries; Items() never looks up a name that has no variable.
C24_KeysBound ==
    /\ \A id \in MapIds : MuFree(id) => Range(mapKeys[id]) \subseteq KeysOf(mapM[id])
    /\ ~crashed

\* C25: the export goroutine and the application never deadlock on the
\* registry lock and the Map locks: while a flush and a Do pass are both in
\* progress, one of the two can take its next step (no other goroutine can
\* release a lock either of them holds).
C25_NoLockCycle ==
    (epc = "do" /\ mapMu["root"] = "Do") => (ENABLED ExporterStep \/ ENABLED DoStep)

\* The other calls that have returned.
OthersDone(t) == {u \in Callers \ {t} : fpc[u] = "done"}

\* C26: with finitely many concurrent Add and Set calls on one Float, under
\* fair scheduling every call returns; a swap fails only when the cell
\* differs from what the Add loaded, an Add about to fail its swap has
\* retried fewer times than other calls have returned, and so its retries
\* never exceed the number of other calls.
C26_AddReturns ==
    /\ [](\A t \in Callers :
            /\ fretries[t] <= Cardinality(OthersDone(t))
            /\ (fpc[t] = "cas" /\ floatF # fcur[t]) => fretries[t] < Cardinality(OthersDone(t)))
    /\ <>FloatAllReturned

\* Every call has returned, one of them a Set, and some Add had to retry
\* once for every other call.
C26_Witness ==
    /\ FloatAllReturned
    /\ \E u \in Callers : fdelta[u] = 0
    /\ \E t \in Callers : fdelta[t] # 0 /\ fretries[t] = NumCallers - 1
====
